---- MODULE Spec2Model ----
(***************************************************************************)
(* Model of flakeheaven's result cache (flakeheaven/_logic/_snapshot.py):  *)
(* the Snapshot of one (configuration, file) pair, the JSON record it      *)
(* persists, the canonical serialization that names the record, and the    *)
(* eviction sweep of the cache directory.                                  *)
(***************************************************************************)
EXTENDS Integers, Sequences, FiniteSets, TLC

VARIABLES
    file,       \* bytes of the target file: NoFile, or a version in 1..MaxVersions
    entry,      \* what is stored at cache_path: NoEntry, a JSON document, torn or garbage text
    _exists,    \* Snapshot._exists  of every Snapshot instance: "None", "True", "False"
    _digest,    \* Snapshot._digest  of every Snapshot instance: a Python value (None or str)
    _results,   \* Snapshot._results of every Snapshot instance: a Python value
    writing,    \* per Snapshot: the text a write_text in progress has still to write
    last,       \* the call or event that produced the current state, with what it returned
    miss,       \* per Snapshot: it started with a miss on an empty path, file untouched since
    lastDump,   \* the dump that wrote the entry now on disk, while that entry is intact
    options,    \* key derivation, per run: the options Namespace, attributes in the order set
    filename,   \* key derivation, per run: checker.filename
    snapshot,   \* key derivation, per run: what Snapshot.create returned, or NoSnapshot
    now,        \* eviction: the clock, time()
    pathExists, \* eviction: whether the cache directory exists
    dirEntries, \* eviction: per name, the entry of the cache directory (present, atime, data)
    pc,         \* eviction: where the prepare_cache call stands
    todo,       \* eviction: the names iterdir() listed that the loop has still to visit
    fpath,      \* eviction: the entry the loop is about to unlink
    atCall,     \* eviction: dirEntries as they were when prepare_cache was called
    clockAt,    \* eviction: per name, the clock read when the loop compared that entry
    disturbed   \* eviction: something else touched the directory during the call

snapVars == <<file, entry, _exists, _digest, _results, writing,
              last, miss, lastDump>>
keyVars == <<options, filename, snapshot>>
pruneVars == <<now, pathExists, dirEntries, pc, todo, fpath, atCall, clockAt, disturbed>>
vars == <<snapVars, keyVars, pruneVars>>

-----------------------------------------------------------------------------
(* Bounds *)

MaxSnaps == 1        \* Snapshot instances alive at a time (create() replaces one)
MaxVersions == 2     \* distinct contents the target file takes
MaxCodes == 2        \* distinct codes a set-valued option holds
MaxWorkers == 2      \* workers using Snapshots of one cache_path at the same time
MaxEntries == 2      \* entries of the cache directory
MaxTicks == 2        \* seconds that pass while prepare_cache runs

Snaps == 1 .. MaxSnaps
Versions == 1 .. MaxVersions

-----------------------------------------------------------------------------
(* Python values, as far as the cache handles them.  Every value is a      *)
(* record [t, v]: t the type, v the payload.  A str is a sequence of       *)
(* symbols; a list, tuple or set is the sequence of its items (a set: in   *)
(* its iteration order); a dict or Namespace the sequence of its           *)
(* <<key, value>> pairs in insertion order.                                *)

PyNone == [t |-> "none", v |-> <<>>]
PyStr(cs) == [t |-> "str", v |-> cs]
PyInt(n) == [t |-> "int", v |-> n]
PyList(xs) == [t |-> "list", v |-> xs]
PyTuple(xs) == [t |-> "tuple", v |-> xs]
PySet(xs) == [t |-> "set", v |-> xs]
PyDict(kvs) == [t |-> "dict", v |-> kvs]
PyNamespace(kvs) == [t |-> "namespace", v |-> kvs]

(* JSON documents: what json.dumps writes and json.loads reads. *)
JNull == [t |-> "jnull", v |-> <<>>]
JStr(cs) == [t |-> "jstr", v |-> cs]
JNum(n) == [t |-> "jnum", v |-> n]
JArr(xs) == [t |-> "jarr", v |-> xs]
JObj(kvs) == [t |-> "jobj", v |-> kvs]

(* Variant: json.dumps writing the items of an array last to first. *)
RECURSIVE ToJsonReversed(_)
ToJsonReversed(x) ==
    CASE x.t = "none" -> JNull
      [] x.t = "str" -> JStr(x.v)
      [] x.t = "int" -> JNum(x.v)
      [] x.t \in {"list", "tuple"} ->
            JArr([i \in 1 .. Len(x.v) |-> ToJsonReversed(x.v[Len(x.v) + 1 - i])])
      [] x.t = "dict" ->
            JObj([i \in 1 .. Len(x.v) |-> <<x.v[i][1].v, ToJsonReversed(x.v[i][2])>>])

(* json.dumps on the types the stock encoder knows: list and tuple both    *)
(* become an array, a dict an object with its members in insertion order.  *)
RECURSIVE ToJson(_)
ToJson(x) ==
    CASE x.t = "none" -> JNull
      [] x.t = "str" -> JStr(x.v)
      [] x.t = "int" -> JNum(x.v)
      [] x.t \in {"list", "tuple"} -> JArr([i \in 1 .. Len(x.v) |-> ToJson(x.v[i])])
      [] x.t = "dict" ->
            JObj([i \in 1 .. Len(x.v) |-> <<x.v[i][1].v, ToJson(x.v[i][2])>>])

(* json.loads: an array becomes a list, an object a dict. *)
RECURSIVE FromJson(_)
FromJson(j) ==
    CASE j.t = "jnull" -> PyNone
      [] j.t = "jstr" -> PyStr(j.v)
      [] j.t = "jnum" -> PyInt(j.v)
      [] j.t = "jarr" -> PyList([i \in 1 .. Len(j.v) |-> FromJson(j.v[i])])
      [] j.t = "jobj" ->
            PyDict([i \in 1 .. Len(j.v) |-> <<PyStr(j.v[i][1]), FromJson(j.v[i][2])>>])

(* d[key] on a decoded document: the value, or Raise (KeyError, or         *)
(* TypeError when the document is no object).                              *)
Raise == [t |-> "raise", v |-> <<>>]
HasKey(d, key) == d.t \in {"dict", "namespace"} /\ \E i \in 1 .. Len(d.v) : d.v[i][1] = key
(* Variant: d.get(key), None for a member that is not there. *)
GetOrNone(d, key) ==
    IF HasKey(d, key)
    THEN d.v[CHOOSE i \in 1 .. Len(d.v) : d.v[i][1] = key][2]
    ELSE PyNone

GetItem(d, key) ==
    IF HasKey(d, key)
    THEN d.v[CHOOSE i \in 1 .. Len(d.v) : d.v[i][1] = key][2]
    ELSE Raise

-----------------------------------------------------------------------------
(* JSON text.  A text is a sequence of symbols: single characters, or a    *)
(* word that is only ever used whole.  SymbolOrder lists the symbols of    *)
(* the model in code point order, which is the order Python compares str.  *)

SymbolOrder ==
    <<"\"", "1", "2", "E1", "E2", "\\", "a", "b", "digest", "jobs", "md5",
      "results", "select", "x", "y">>
Rank(c) == CHOOSE i \in 1 .. Len(SymbolOrder) : SymbolOrder[i] = c

RECURSIVE Concat(_)
Concat(texts) ==
    IF texts = <<>> THEN <<>> ELSE Head(texts) \o Concat(Tail(texts))

(* ", ".join(texts), with the separator given *)
RECURSIVE Join(_, _)
Join(texts, sep) ==
    IF texts = <<>> THEN <<>>
    ELSE IF Len(texts) = 1 THEN texts[1]
    ELSE texts[1] \o sep \o Join(Tail(texts), sep)

(* The JSON string literal: quotes around, quote and backslash escaped. *)
EscapeChar(c) == IF c \in {"\"", "\\"} THEN <<"\\", c>> ELSE <<c>>
Quoted(cs) == <<"\"">> \o Concat([i \in 1 .. Len(cs) |-> EscapeChar(cs[i])]) \o <<"\"">>

(* The text of a JSON document, with json's default separators. *)
RECURSIVE JsonText(_)
JsonText(j) ==
    CASE j.t = "jnull" -> <<"n", "u", "l", "l">>
      [] j.t = "jstr" -> Quoted(j.v)
      [] j.t = "jnum" -> <<ToString(j.v)>>
      [] j.t = "jarr" ->
            <<"[">> \o Join([i \in 1 .. Len(j.v) |-> JsonText(j.v[i])], <<",", " ">>)
                    \o <<"]">>
      [] j.t = "jobj" ->
            <<"{">> \o Join([i \in 1 .. Len(j.v) |->
                                Quoted(j.v[i][1]) \o <<":", " ">> \o JsonText(j.v[i][2])],
                            <<",", " ">>)
                    \o <<"}">>

-----------------------------------------------------------------------------
(* serialize: json.dumps(options, sort_keys=True, cls=_CustomEncoder)      *)

(* Python's < on two str (lexicographic) or two int. *)
RECURSIVE StrLess(_, _)
StrLess(a, b) ==
    IF b = <<>> THEN FALSE
    ELSE IF a = <<>> THEN TRUE
    ELSE IF Head(a) # Head(b) THEN Rank(Head(a)) < Rank(Head(b))
    ELSE StrLess(Tail(a), Tail(b))

PyLess(x, y) == IF x.t = "int" THEN x.v < y.v ELSE StrLess(x.v, y.v)

(* sorted(obj) on a set: its items, distinct, in ascending order. *)
sorted(xs) ==
    [i \in 1 .. Len(xs) |->
        xs[CHOOSE j \in 1 .. Len(xs) :
              Cardinality({k \in 1 .. Len(xs) : PyLess(xs[k], xs[j])}) = i - 1]]

(* Variant: the members of a mapping left in insertion order. *)
UnsortedItems(kvs) == kvs

(* The members of a mapping in ascending order of their keys (sort_keys    *)
(* for a dict, sorted(vars(obj).keys()) for a Namespace).                  *)
SortedItems(kvs) ==
    [i \in 1 .. Len(kvs) |->
        kvs[CHOOSE j \in 1 .. Len(kvs) :
              Cardinality({k \in 1 .. Len(kvs) : PyLess(kvs[k][1], kvs[j][1])}) = i - 1]]

(* _CustomEncoder.encode with sort_keys=True: the stock encoder, which     *)
(* hands a set or a Namespace to _CustomEncoder.default and goes on with   *)
(* what default returns, a list of str for a set and a dict of str for a   *)
(* Namespace, each str being the JSON text of the item (self.encode).      *)
RECURSIVE Encode(_)
Encode(x) ==
    CASE x.t = "none" -> JNull
      [] x.t = "str" -> JStr(x.v)
      [] x.t = "int" -> JNum(x.v)
      [] x.t \in {"list", "tuple"} -> JArr([i \in 1 .. Len(x.v) |-> Encode(x.v[i])])
      [] x.t = "dict" ->
            LET kvs == SortedItems(x.v)
            IN  JObj([i \in 1 .. Len(kvs) |-> <<kvs[i][1].v, Encode(kvs[i][2])>>])
      [] x.t = "set" ->
            LET xs == sorted(x.v)
            IN  JArr([i \in 1 .. Len(xs) |-> JStr(JsonText(Encode(xs[i])))])
      [] x.t = "namespace" ->
            LET kvs == SortedItems(SortedItems(x.v))
            IN  JObj([i \in 1 .. Len(kvs) |->
                        <<kvs[i][1].v, JStr(JsonText(Encode(kvs[i][2])))>>])

serialize(opts) == JsonText(Encode(opts))

(* Path(filename).resolve(): the absolute path of the file the reference   *)
(* names, the working directory being /w.                                  *)
resolve(name) ==
    CASE name = <<"a">> -> <<"/", "w", "/", "a">>
      [] name = <<".", "/", "a">> -> <<"/", "w", "/", "a">>
      [] name = <<"b">> -> <<"/", "w", "/", "b">>

(* hasher.update(...) twice, then hexdigest(): md5 of the concatenation,   *)
(* taken as injective; cache_path is CACHE_PATH / (hexdigest + '.json').   *)
HexDigest(bytes) == <<"md5">> \o bytes

(* Variant: the path of the file left out of the hash. *)
CreateNoPath(name, opts) ==
    [cache_path |-> HexDigest(serialize(opts)) \o <<".json">>,
     file_path |-> resolve(name)]

create(name, opts) ==
    [cache_path |-> HexDigest(serialize(opts) \o resolve(name)) \o <<".json">>,
     file_path |-> resolve(name)]

-----------------------------------------------------------------------------
(* The filesystem the Snapshots of one (configuration, file) pair share.   *)

NoFile == 0
NoEntry == [t |-> "absent", v |-> <<>>]
Empty == [t |-> "empty", v |-> <<>>]        \* a file of zero bytes
Garbage == [t |-> "garbage", v |-> <<1>>]   \* bytes that are no JSON document

(* md5(...).hexdigest(), taken as injective on the bytes it is fed. *)
Md5Hex(bytes) == PyStr(<<"md5", ToString(bytes)>>)

(* json.loads(cache_path.read_text()) *)
Loads(content) ==
    IF content.t \in {"absent", "empty", "garbage", "mixed"}
    THEN Raise
    ELSE FromJson(content)

(* The findings lists handed to dump: none, and two findings, the first as *)
(* flake8 reports it (a tuple), the second a list.                         *)
FindingTuple == PyTuple(<<PyStr(<<"E1">>), PyInt(1)>>)
FindingOther == PyList(<<PyStr(<<"E2">>), PyInt(2)>>)
Findings == { PyList(<<>>), PyList(<<FindingTuple, FindingOther>>) }

-----------------------------------------------------------------------------
(* Snapshot *)

(* Variant: the digest of the bytes read at every request. *)
DigestAfresh(s) ==
    IF file = NoFile
    THEN [val |-> PyNone, memo |-> _digest[s], readFile |-> FALSE]
    ELSE [val |-> Md5Hex(file), memo |-> Md5Hex(file), readFile |-> TRUE]

(* Snapshot.digest (property): the memoized digest if there is one, None   *)
(* if the file does not exist, else the digest of the bytes read now.      *)
digest(s) ==
    IF _digest[s] # PyNone
    THEN [val |-> _digest[s], memo |-> _digest[s], readFile |-> FALSE]
    ELSE IF file = NoFile
         THEN [val |-> PyNone, memo |-> PyNone, readFile |-> FALSE]
         ELSE [val |-> Md5Hex(file), memo |-> Md5Hex(file), readFile |-> TRUE]

(* Variant: a record written with a null digest. *)
DumpsNoDigest(s, results) ==
    ToJson(PyDict(<<<<PyStr(<<"results">>), results>>,
                    <<PyStr(<<"digest">>), PyNone>>>>))

(* Snapshot.dumps: the document dump writes. *)
dumps(s, results) ==
    ToJson(PyDict(<<<<PyStr(<<"results">>), results>>,
                    <<PyStr(<<"digest">>), digest(s).val>>>>))

(* Snapshot.exists: what the call returns (ret: "True", "False", "raise")  *)
(* and the fields it leaves behind.                                        *)
ExistsKeep(s, ret) ==
    [ret |-> ret, ex |-> _exists[s], dig |-> _digest[s], res |-> _results[s],
     computed |-> FALSE, read |-> FALSE]

ExistsCompute(s) ==
    IF entry = NoEntry
    THEN [ExistsKeep(s, "False") EXCEPT !.ex = "False", !.computed = TRUE]
    ELSE IF digest(s).val = PyNone
    THEN [ExistsKeep(s, "False") EXCEPT !.computed = TRUE]
    ELSE LET cache == Loads(entry)
             stored == IF cache = Raise THEN Raise ELSE GetItem(cache, PyStr(<<"digest">>))
             hit == digest(s).val = stored
         IN  IF stored = Raise
             THEN [ExistsKeep(s, "raise") EXCEPT !.dig = digest(s).memo,
                                                  !.computed = TRUE, !.read = TRUE]
             ELSE IF hit /\ GetItem(cache, PyStr(<<"results">>)) = Raise
             THEN [ExistsKeep(s, "raise") EXCEPT !.dig = digest(s).memo, !.ex = "True",
                                                  !.computed = TRUE, !.read = TRUE]
             ELSE [ret |-> IF hit THEN "True" ELSE "False",
                   ex |-> IF hit THEN "True" ELSE "False",
                   dig |-> digest(s).memo,
                   res |-> IF hit THEN GetItem(cache, PyStr(<<"results">>)) ELSE _results[s],
                   computed |-> TRUE, read |-> TRUE]

(* Variant: exists() without the replay of lines 76-77. *)
ExistsForgetful(s) == ExistsCompute(s)

exists(s) ==
    IF _exists[s] # "None" THEN ExistsKeep(s, _exists[s]) ELSE ExistsCompute(s)

(* Snapshot.results (property): the findings loaded by exists(), else the  *)
(* record at cache_path read and decoded now.                              *)
results(s) ==
    IF _results[s] # PyNone
    THEN [val |-> _results[s], read |-> FALSE]
    ELSE LET cache == Loads(entry)
         IN  [val |-> IF cache = Raise THEN Raise
                      ELSE GetItem(cache, PyStr(<<"results">>)),
              read |-> entry # NoEntry]

-----------------------------------------------------------------------------
(* Bookkeeping for the properties: the event that led to the current       *)
(* state.  ret is what the call returned ("raise": it ended in an          *)
(* exception), val the value a property returned, computed/read whether    *)
(* exists() went past its memo / read the content of the record, fresh     *)
(* whether the Snapshot was as create() left it, prevRet what the call     *)
(* before returned when that was exists() on the same Snapshot too.  For   *)
(* an exists() that directly follows a                                     *)
(* dump on the same Snapshot, afterDump holds and arg, memo, dig are that  *)
(* dump's findings, the _exists it found and the digest it stored.         *)
(* readFile: the call read the bytes of the target file.                   *)

Event(op, s) ==
    [op |-> op, s |-> s, ret |-> "None", val |-> PyNone, computed |-> FALSE,
     read |-> FALSE, fresh |-> FALSE, prevRet |-> "None", afterDump |-> FALSE,
     arg |-> PyNone, memo |-> "None", dig |-> PyNone, readFile |-> FALSE]

NoDump == [valid |-> FALSE, arg |-> PyNone, content |-> NoFile, clean |-> FALSE]

IsFresh(s) == _exists[s] = "None" /\ _digest[s] = PyNone /\ _results[s] = PyNone

Each(I, x) == [s \in I |-> x]

(* Snapshot.create / __init__: a new instance takes the place of s. *)
Create(s) ==
    /\ writing[s] = NoEntry
    /\ ~IsFresh(s) \/ miss[s]
    /\ _exists' = [_exists EXCEPT ![s] = "None"]
    /\ _digest' = [_digest EXCEPT ![s] = PyNone]
    /\ _results' = [_results EXCEPT ![s] = PyNone]
    /\ miss' = [miss EXCEPT ![s] = FALSE]
    /\ last' = Event("create", s)
    /\ UNCHANGED <<file, entry, writing, lastDump>>
    /\ UNCHANGED <<keyVars, pruneVars>>

(* Variant: exists() that removes a record it found out of date. *)
ExistsDropsStale(s) ==
    LET r == exists(s)
        returned == r.ret # "raise"
        follows == last.op = "dump" /\ last.s = s
        again == last.op = "exists" /\ last.s = s /\ last.ret # "raise"
    IN  /\ writing[s] = NoEntry
        /\ _exists' = [_exists EXCEPT ![s] = r.ex]
        /\ _digest' = [_digest EXCEPT ![s] = r.dig]
        /\ _results' = [_results EXCEPT ![s] = r.res]
        /\ last' = [Event("exists", s) EXCEPT
                        !.ret = r.ret, !.computed = r.computed, !.read = r.read,
                        !.fresh = IsFresh(s),
                        !.readFile = (r.computed /\ entry # NoEntry
                                        /\ digest(s).readFile),
                        !.prevRet = IF again THEN last.ret ELSE "None",
                        !.afterDump = follows,
                        !.arg = IF follows THEN last.arg ELSE PyNone,
                        !.memo = IF follows THEN last.memo ELSE "None",
                        !.dig = IF follows THEN last.dig ELSE PyNone]
        /\ miss' = [miss EXCEPT
                        ![s] = IF IsFresh(s)
                               THEN entry = NoEntry /\ file # NoFile
                               ELSE @]
        /\ entry' = IF r.read /\ r.ret = "False" THEN NoEntry ELSE entry
        /\ UNCHANGED <<file, writing, lastDump>>
        /\ UNCHANGED <<keyVars, pruneVars>>

(* s.exists() *)
Exists(s) ==
    LET r == exists(s)
        returned == r.ret # "raise"
        follows == last.op = "dump" /\ last.s = s
        again == last.op = "exists" /\ last.s = s /\ last.ret # "raise"
    IN  /\ writing[s] = NoEntry
        /\ _exists' = [_exists EXCEPT ![s] = r.ex]
        /\ _digest' = [_digest EXCEPT ![s] = r.dig]
        /\ _results' = [_results EXCEPT ![s] = r.res]
        /\ last' = [Event("exists", s) EXCEPT
                        !.ret = r.ret, !.computed = r.computed, !.read = r.read,
                        !.fresh = IsFresh(s),
                        !.readFile = (r.computed /\ entry # NoEntry
                                        /\ digest(s).readFile),
                        !.prevRet = IF again THEN last.ret ELSE "None",
                        !.afterDump = follows,
                        !.arg = IF follows THEN last.arg ELSE PyNone,
                        !.memo = IF follows THEN last.memo ELSE "None",
                        !.dig = IF follows THEN last.dig ELSE PyNone]
        /\ miss' = [miss EXCEPT
                        ![s] = IF IsFresh(s)
                               THEN entry = NoEntry /\ file # NoFile
                               ELSE @]
        /\ UNCHANGED <<file, entry, writing, lastDump>>
        /\ UNCHANGED <<keyVars, pruneVars>>

(* s.digest *)
Digest(s) ==
    /\ writing[s] = NoEntry
    /\ _digest' = [_digest EXCEPT ![s] = digest(s).memo]
    /\ last' = [Event("digest", s) EXCEPT !.val = digest(s).val,
                                           !.read = digest(s).readFile,
                                           !.readFile = digest(s).readFile]
    /\ UNCHANGED <<file, entry, _exists, _results, writing,
                   miss, lastDump>>
    /\ UNCHANGED <<keyVars, pruneVars>>

(* s.results *)
Results(s) ==
    /\ writing[s] = NoEntry
    /\ last' = [Event("results", s) EXCEPT
                    !.ret = IF results(s).val = Raise THEN "raise" ELSE "value",
                    !.val = results(s).val, !.read = results(s).read]
    /\ UNCHANGED <<file, entry, _exists, _digest, _results, writing,
                   miss, lastDump>>
    /\ UNCHANGED <<keyVars, pruneVars>>

(* s.dump(findings), run without anything else happening meanwhile:        *)
(* cache_path.write_text(self.dumps(results)).                             *)
Dump(s, findings) ==
    /\ writing[s] = NoEntry
    /\ \A o \in DOMAIN writing : writing[o] = NoEntry
    /\ entry' = dumps(s, findings)
    /\ _digest' = [_digest EXCEPT ![s] = digest(s).memo]
    /\ last' = [Event("dump", s) EXCEPT !.arg = findings, !.memo = _exists[s],
                                         !.dig = digest(s).val,
                                         !.readFile = digest(s).readFile]
    /\ lastDump' = [valid |-> TRUE, arg |-> findings, content |-> file,
                    clean |-> miss[s]]
    /\ UNCHANGED <<file, _exists, _results, writing, miss>>
    /\ UNCHANGED <<keyVars, pruneVars>>

(* The rest of the world: the target file is written, created or deleted;  *)
(* the cache entry is removed (eviction, a cleared cache) or damaged.      *)
EnvWriteFile(b) ==
    /\ b # file
    /\ file' = b
    /\ last' = Event("env", 0)
    /\ miss' = Each(DOMAIN miss, FALSE)
    /\ lastDump' = [lastDump EXCEPT !.clean = FALSE]
    /\ UNCHANGED <<entry, _exists, _digest, _results, writing>>
    /\ UNCHANGED <<keyVars, pruneVars>>

EnvRemoveEntry ==
    /\ entry # NoEntry
    /\ entry' = NoEntry
    /\ last' = Event("env", 0)
    /\ lastDump' = NoDump
    /\ UNCHANGED <<file, _exists, _digest, _results, writing, miss>>
    /\ UNCHANGED <<keyVars, pruneVars>>

EnvCorruptEntry(c) ==
    /\ entry # c
    /\ entry' = c
    /\ last' = Event("env", 0)
    /\ lastDump' = NoDump
    /\ UNCHANGED <<file, _exists, _digest, _results, writing, miss>>
    /\ UNCHANGED <<keyVars, pruneVars>>

(* What a damaged entry holds: bytes that are no JSON, an object without   *)
(* digest, or an object with the digest of a content and no results.       *)
DigestOnly == JObj(<<<<<<"digest">>, JStr(<<"md5", "1">>)>>>>)
Damaged == {Garbage, JObj(<<>>), DigestOnly}

SnapNext ==
    \/ \E s \in Snaps : Create(s)
    \/ \E s \in Snaps : Exists(s)
    \/ \E s \in Snaps : Digest(s)
    \/ \E s \in Snaps : Results(s)
    \/ \E s \in Snaps, f \in Findings : Dump(s, f)
    \/ \E b \in {NoFile} \cup Versions : EnvWriteFile(b)
    \/ EnvRemoveEntry
    \/ \E c \in Damaged : EnvCorruptEntry(c)

-----------------------------------------------------------------------------
(* Key derivation: two runs, each building its options Namespace one       *)
(* attribute at a time and then creating the Snapshot of its file.         *)

Runs == {1, 2}
NoSnapshot == [cache_path |-> <<>>, file_path |-> <<>>]
Attr(name) == PyStr(<<name>>)

(* Every sequence without repetition over the set S: the iteration orders  *)
(* of the sets of items of S.                                              *)
RECURSIVE Orders(_)
Orders(S) ==
    IF S = {} THEN {<<>>}
    ELSE UNION {Orders(S \ {x}) \cup {<<x>> \o q : q \in Orders(S \ {x})} : x \in S}

Codes == {PyInt(n) : n \in 1 .. MaxCodes}

(* The values of the option select: a set of codes in any iteration order, *)
(* or a list of str. *)
SelectValues ==
    {PySet(o) : o \in Orders(Codes)} \cup {PyList(<<PyStr(<<"1">>)>>)}

(* The values of the option jobs: a Namespace or a dict, members in either *)
(* insertion order, holding scalars and a set. *)
JobsValues ==
    { PyNamespace(<<<<Attr("x"), PyInt(1)>>, <<Attr("y"), PyStr(<<"a", "\"">>)>>>>),
      PyNamespace(<<<<Attr("y"), PyStr(<<"a", "\"">>)>>, <<Attr("x"), PyInt(1)>>>>),
      PyDict(<<<<Attr("x"), PySet(<<PyInt(1), PyInt(2)>>)>>, <<Attr("y"), PyNone>>>>),
      PyDict(<<<<Attr("y"), PyNone>>, <<Attr("x"), PySet(<<PyInt(2), PyInt(1)>>)>>>>) }

AttrValues(name) == IF name = "select" THEN SelectValues ELSE JobsValues
AttrNames == {"select", "jobs"}

(* The references to the file under analysis: runs 1 and 2 may name the    *)
(* same file differently, or different files.                              *)
Filenames == [Runs -> {<<"a">>, <<".", "/", "a">>, <<"b">>}]

(* setattr(config, dest_name, value) on an attribute not set yet *)
SetAttr(r, name, value) ==
    /\ snapshot[r] = NoSnapshot
    /\ ~HasKey(options[r], Attr(name))
    /\ options' = [options EXCEPT ![r] = PyNamespace(Append(@.v, <<Attr(name), value>>))]
    /\ UNCHANGED <<filename, snapshot>>
    /\ UNCHANGED <<snapVars, pruneVars>>

(* Snapshot.create(checker, options) *)
CreateSnapshot(r) ==
    /\ snapshot[r] = NoSnapshot
    /\ snapshot' = [snapshot EXCEPT ![r] = create(filename[r], options[r])]
    /\ UNCHANGED <<options, filename>>
    /\ UNCHANGED <<snapVars, pruneVars>>

KeyNext ==
    \/ \E r \in Runs, name \in AttrNames : \E value \in AttrValues(name) :
            SetAttr(r, name, value)
    \/ \E r \in Runs : CreateSnapshot(r)

-----------------------------------------------------------------------------
(* dump with its file operations apart, for workers that run at the same   *)
(* time: write_text opens cache_path for writing, which truncates it, and  *)
(* writes the text when the file is closed (one write: the text is shorter *)
(* than the io buffer).                                                    *)

Workers == 1 .. MaxWorkers

(* The length in bytes of what is stored at cache_path. *)
Size(content) ==
    CASE content.t \in {"absent", "empty"} -> 0
      [] content.t \in {"garbage", "mixed"} -> content.v[1]
      [] OTHER -> Len(JsonText(content))

(* write(text) at offset 0 of a file that holds content: the text, and     *)
(* after it whatever content held beyond the text's length.                *)
Overwrite(content, text) ==
    IF Size(content) <= Len(JsonText(text))
    THEN text
    ELSE [t |-> "mixed", v |-> <<Size(content)>>]

(* open(cache_path, 'w'), after self.dumps(results) has been evaluated *)
DumpOpen(s, findings) ==
    /\ writing[s] = NoEntry
    /\ writing' = [writing EXCEPT ![s] = dumps(s, findings)]
    /\ entry' = Empty
    /\ _digest' = [_digest EXCEPT ![s] = digest(s).memo]
    /\ last' = [Event("open", s) EXCEPT !.arg = findings, !.memo = _exists[s],
                                         !.dig = digest(s).val,
                                         !.readFile = digest(s).readFile]
    /\ lastDump' = NoDump
    /\ UNCHANGED <<file, _exists, _results, miss>>
    /\ UNCHANGED <<keyVars, pruneVars>>

(* f.write(data) and the close that flushes it *)
DumpClose(s) ==
    /\ writing[s] # NoEntry
    /\ entry' = Overwrite(entry, writing[s])
    /\ writing' = [writing EXCEPT ![s] = NoEntry]
    /\ last' = [Event("close", s) EXCEPT !.val = writing[s]]
    /\ UNCHANGED <<file, _exists, _digest, _results, miss, lastDump>>
    /\ UNCHANGED <<keyVars, pruneVars>>

ConcNext ==
    \/ \E s \in Workers, f \in Findings : DumpOpen(s, f)
    \/ \E s \in Workers : DumpClose(s)
    \/ \E s \in Workers : Exists(s)
    \/ \E s \in Workers : Results(s)

-----------------------------------------------------------------------------
(* prepare_cache: the cache directory is made if it is missing, else every *)
(* entry not accessed for more than THRESHOLD seconds is removed.          *)

THRESHOLD == 2
Start == THRESHOLD + 1      \* the clock when prepare_cache is called
Names == 1 .. MaxEntries

NoInode == [present |-> FALSE, atime |-> 0, data |-> 0]
Inode(atime, data) == [present |-> TRUE, atime |-> atime, data |-> data]

(* Variant: an entry exactly THRESHOLD old is not kept. *)
WithinStrict(t, atime) == t - atime < THRESHOLD

(* time() - fpath.stat().st_atime <= THRESHOLD *)
Within(t, atime) == t - atime <= THRESHOLD

Running == pc \in {"mkdir", "iterdir", "loop", "unlink"}

(* What the loop goes on with once it is done with one entry. *)
Rest(left) == IF left = {} THEN "returned" ELSE "loop"

(* if not path.exists(): *)
PrepCheck ==
    /\ pc = "called"
    /\ pc' = IF pathExists THEN "iterdir" ELSE "mkdir"
    /\ UNCHANGED <<now, pathExists, dirEntries, todo, fpath, atCall, clockAt, disturbed>>
    /\ UNCHANGED <<snapVars, keyVars>>

(* path.mkdir(parents=True); return *)
PrepMkdir ==
    /\ pc = "mkdir"
    /\ pc' = IF pathExists THEN "raised" ELSE "returned"
    /\ pathExists' = TRUE
    /\ UNCHANGED <<now, dirEntries, todo, fpath, atCall, clockAt, disturbed>>
    /\ UNCHANGED <<snapVars, keyVars>>

(* path.iterdir(): the names in the directory now *)
PrepIterdir ==
    /\ pc = "iterdir"
    /\ todo' = {n \in Names : dirEntries[n].present}
    /\ pc' = Rest(todo')
    /\ UNCHANGED <<now, pathExists, dirEntries, fpath, atCall, clockAt, disturbed>>
    /\ UNCHANGED <<snapVars, keyVars>>

(* the next fpath of the loop, in whatever order the directory lists them: *)
(* stat it and compare its age; continue, or go on to unlink it            *)
PrepStat(n) ==
    /\ pc = "loop"
    /\ n \in todo
    /\ IF ~dirEntries[n].present
       THEN /\ pc' = "raised"
            /\ UNCHANGED <<todo, fpath, clockAt>>
       ELSE /\ clockAt' = [clockAt EXCEPT ![n] = now]
            /\ IF Within(now, dirEntries[n].atime)
               THEN /\ todo' = todo \ {n}
                    /\ pc' = Rest(todo')
                    /\ UNCHANGED fpath
               ELSE /\ fpath' = n
                    /\ pc' = "unlink"
                    /\ UNCHANGED todo
    /\ UNCHANGED <<now, pathExists, dirEntries, atCall, disturbed>>
    /\ UNCHANGED <<snapVars, keyVars>>

(* fpath.unlink() *)
PrepUnlink ==
    /\ pc = "unlink"
    /\ IF ~dirEntries[fpath].present
       THEN /\ pc' = "raised"
            /\ UNCHANGED <<dirEntries, todo>>
       ELSE /\ dirEntries' = [dirEntries EXCEPT ![fpath] = NoInode]
            /\ todo' = todo \ {fpath}
            /\ pc' = Rest(todo')
    /\ UNCHANGED <<now, pathExists, fpath, atCall, clockAt, disturbed>>
    /\ UNCHANGED <<snapVars, keyVars>>

(* A second passes. *)
Tick ==
    /\ Running
    /\ now < Start + MaxTicks
    /\ now' = now + 1
    /\ UNCHANGED <<pathExists, dirEntries, pc, todo, fpath, atCall, clockAt, disturbed>>
    /\ UNCHANGED <<snapVars, keyVars>>

(* Another process reads an entry (a cache hit of a run in progress). *)
EnvAccess(n) ==
    /\ Running
    /\ dirEntries[n].present
    /\ dirEntries[n].atime # now
    /\ dirEntries' = [dirEntries EXCEPT ![n].atime = now]
    /\ disturbed' = TRUE
    /\ UNCHANGED <<now, pathExists, pc, todo, fpath, atCall, clockAt>>
    /\ UNCHANGED <<snapVars, keyVars>>

(* Another process removes an entry (its own prepare_cache). *)
EnvUnlink(n) ==
    /\ Running
    /\ dirEntries[n].present
    /\ dirEntries' = [dirEntries EXCEPT ![n] = NoInode]
    /\ disturbed' = TRUE
    /\ UNCHANGED <<now, pathExists, pc, todo, fpath, atCall, clockAt>>
    /\ UNCHANGED <<snapVars, keyVars>>

(* Another process makes the cache directory (its own prepare_cache). *)
EnvMkdir ==
    /\ Running
    /\ ~pathExists
    /\ pathExists' = TRUE
    /\ disturbed' = TRUE
    /\ UNCHANGED <<now, dirEntries, pc, todo, fpath, atCall, clockAt>>
    /\ UNCHANGED <<snapVars, keyVars>>

PruneNext ==
    \/ PrepCheck
    \/ PrepMkdir
    \/ PrepIterdir
    \/ \E n \in Names : PrepStat(n)
    \/ PrepUnlink
    \/ Tick
    \/ \E n \in Names : EnvAccess(n)
    \/ \E n \in Names : EnvUnlink(n)
    \/ EnvMkdir

-----------------------------------------------------------------------------
(* The digest accessor with its two accesses to the target file apart:     *)
(* file_path.exists() (line 102) and file_path.read_bytes() (line 105),    *)
(* between which another process may write or delete the file.  While a    *)
(* call stands between the two, last is that position: "digest.check" for  *)
(* the accessor called directly, "exists.check" for exists() at line 84.   *)

InCall == last.op \in {"digest.check", "exists.check"}

(* open() of a file that is gone *)
FileNotFoundError == [t |-> "raise", v |-> <<"FileNotFoundError">>]

(* The accessor gets to line 102 and finds the file there. *)
ReadsFile(s) == _digest[s] = PyNone /\ file # NoFile

(* exists() gets to line 84 with no digest held. *)
AsksDigest(s) == _exists[s] = "None" /\ entry # NoEntry

(* s.digest when it returns without reading: the memo, or None *)
DigestReturn(s) ==
    /\ ~InCall
    /\ ~ReadsFile(s)
    /\ Digest(s)

(* s.digest, lines 101-102: the file exists *)
DigestCheck(s) ==
    /\ ~InCall
    /\ ReadsFile(s)
    /\ last' = Event("digest.check", s)
    /\ UNCHANGED <<file, entry, _exists, _digest, _results, writing, miss, lastDump>>
    /\ UNCHANGED <<keyVars, pruneVars>>

(* s.digest, lines 104-107: read the bytes, memoize and return the digest *)
DigestRead(s) ==
    /\ last.op = "digest.check" /\ last.s = s
    /\ IF file = NoFile
       THEN /\ last' = [Event("digest", s) EXCEPT !.ret = "raise",
                                                  !.val = FileNotFoundError]
            /\ UNCHANGED <<file, entry, _exists, _digest, _results, writing,
                           miss, lastDump>>
            /\ UNCHANGED <<keyVars, pruneVars>>
       ELSE Digest(s)

(* s.exists() when it does not read the target file: a replay, no entry,   *)
(* no file, or a digest already held                                       *)
ExistsReturn(s) ==
    /\ ~InCall
    /\ ~(AsksDigest(s) /\ ReadsFile(s))
    /\ Exists(s)

(* s.exists(), lines 76-84 and 101-102: an entry is there, the file exists *)
ExistsCheck(s) ==
    /\ ~InCall
    /\ AsksDigest(s) /\ ReadsFile(s)
    /\ last' = Event("exists.check", s)
    /\ UNCHANGED <<file, entry, _exists, _digest, _results, writing, miss, lastDump>>
    /\ UNCHANGED <<keyVars, pruneVars>>

(* s.exists(), lines 104-107 and 85-94 *)
ExistsRead(s) ==
    /\ last.op = "exists.check" /\ last.s = s
    /\ IF file = NoFile
       THEN /\ last' = [Event("exists", s) EXCEPT !.ret = "raise", !.computed = TRUE,
                                                  !.val = FileNotFoundError]
            /\ UNCHANGED <<file, entry, _exists, _digest, _results, writing,
                           miss, lastDump>>
            /\ UNCHANGED <<keyVars, pruneVars>>
       ELSE Exists(s)

(* Another process writes or deletes the target file during the call. *)
FileChanges(b) ==
    /\ InCall
    /\ b # file
    /\ file' = b
    /\ miss' = Each(DOMAIN miss, FALSE)
    /\ lastDump' = [lastDump EXCEPT !.clean = FALSE]
    /\ UNCHANGED <<entry, _exists, _digest, _results, writing, last>>
    /\ UNCHANGED <<keyVars, pruneVars>>

(* Between calls: a new instance, a dump, a change of the file. *)
CreateBetween(s) == ~InCall /\ Create(s)
DumpBetween(s, findings) == ~InCall /\ Dump(s, findings)
FileChangesBetween(b) == ~InCall /\ EnvWriteFile(b)

RaceNext ==
    \/ \E s \in Snaps : DigestReturn(s)
    \/ \E s \in Snaps : DigestCheck(s)
    \/ \E s \in Snaps : DigestRead(s)
    \/ \E s \in Snaps : ExistsReturn(s)
    \/ \E s \in Snaps : ExistsCheck(s)
    \/ \E s \in Snaps : ExistsRead(s)
    \/ \E b \in {NoFile} \cup Versions : FileChanges(b)
    \/ \E s \in Snaps : CreateBetween(s)
    \/ \E s \in Snaps, f \in Findings : DumpBetween(s, f)
    \/ \E b \in {NoFile} \cup Versions : FileChangesBetween(b)

-----------------------------------------------------------------------------
(* Specifications *)

(* One worker using Snapshots of one (configuration, file) pair, one call  *)
(* at a time, while the file and the cache entry change under it.          *)
Init ==
    /\ file \in {NoFile} \cup Versions
    /\ entry = NoEntry
    /\ _exists = Each(Snaps, "None")
    /\ _digest = Each(Snaps, PyNone)
    /\ _results = Each(Snaps, PyNone)
    /\ writing = Each(Snaps, NoEntry)
    /\ last = Event("init", 0)
    /\ miss = Each(Snaps, FALSE)
    /\ lastDump = NoDump
    /\ options = [r \in Runs |-> PyNamespace(<<>>)]
    /\ filename = [r \in Runs |-> <<"a">>]
    /\ snapshot = [r \in Runs |-> NoSnapshot]
    /\ now = Start
    /\ pathExists = TRUE
    /\ dirEntries = [n \in Names |-> NoInode]
    /\ pc = "idle"
    /\ todo = {}
    /\ fpath = 0
    /\ atCall = [n \in Names |-> NoInode]
    /\ clockAt = [n \in Names |-> 0]
    /\ disturbed = FALSE

Next == SnapNext

Spec == Init /\ [][Next]_vars

(* Workers whose calls on Snapshots of one cache_path interleave. *)
ConcInit ==
    /\ file \in {NoFile} \cup Versions
    /\ entry = NoEntry
    /\ _exists = Each(Workers, "None")
    /\ _digest = Each(Workers, PyNone)
    /\ _results = Each(Workers, PyNone)
    /\ writing = Each(Workers, NoEntry)
    /\ last = Event("init", 0)
    /\ miss = Each(Workers, FALSE)
    /\ lastDump = NoDump
    /\ options = [r \in Runs |-> PyNamespace(<<>>)]
    /\ filename = [r \in Runs |-> <<"a">>]
    /\ snapshot = [r \in Runs |-> NoSnapshot]
    /\ now = Start
    /\ pathExists = TRUE
    /\ dirEntries = [n \in Names |-> NoInode]
    /\ pc = "idle"
    /\ todo = {}
    /\ fpath = 0
    /\ atCall = [n \in Names |-> NoInode]
    /\ clockAt = [n \in Names |-> 0]
    /\ disturbed = FALSE

SpecConc == ConcInit /\ [][ConcNext]_vars

(* One worker whose calls another process interleaves with changes of the  *)
(* target file.                                                            *)
RaceInit ==
    /\ file \in {NoFile} \cup Versions
    /\ entry = NoEntry
    /\ _exists = Each(Snaps, "None")
    /\ _digest = Each(Snaps, PyNone)
    /\ _results = Each(Snaps, PyNone)
    /\ writing = Each(Snaps, NoEntry)
    /\ last = Event("init", 0)
    /\ miss = Each(Snaps, FALSE)
    /\ lastDump = NoDump
    /\ options = [r \in Runs |-> PyNamespace(<<>>)]
    /\ filename = [r \in Runs |-> <<"a">>]
    /\ snapshot = [r \in Runs |-> NoSnapshot]
    /\ now = Start
    /\ pathExists = TRUE
    /\ dirEntries = [n \in Names |-> NoInode]
    /\ pc = "idle"
    /\ todo = {}
    /\ fpath = 0
    /\ atCall = [n \in Names |-> NoInode]
    /\ clockAt = [n \in Names |-> 0]
    /\ disturbed = FALSE

SpecRace == RaceInit /\ [][RaceNext]_vars

(* Key derivation: serialize and Snapshot.create on the options and file   *)
(* references of two runs.                                                 *)
KeyInit ==
    /\ options = [r \in Runs |-> PyNamespace(<<>>)]
    /\ filename \in {f \in Filenames : f[1] # <<"b">> /\ f[2] # <<".", "/", "a">>}
    /\ snapshot = [r \in Runs |-> NoSnapshot]
    /\ file = NoFile
    /\ entry = NoEntry
    /\ _exists = Each(Snaps, "None")
    /\ _digest = Each(Snaps, PyNone)
    /\ _results = Each(Snaps, PyNone)
    /\ writing = Each(Snaps, NoEntry)
    /\ last = Event("init", 0)
    /\ miss = Each(Snaps, FALSE)
    /\ lastDump = NoDump
    /\ now = Start
    /\ pathExists = TRUE
    /\ dirEntries = [n \in Names |-> NoInode]
    /\ pc = "idle"
    /\ todo = {}
    /\ fpath = 0
    /\ atCall = [n \in Names |-> NoInode]
    /\ clockAt = [n \in Names |-> 0]
    /\ disturbed = FALSE

SpecKey == KeyInit /\ [][KeyNext]_vars

(* prepare_cache called once on a cache directory in any condition. *)
PruneInit ==
    /\ now = Start
    /\ pathExists \in BOOLEAN
    /\ dirEntries \in [Names -> {NoInode} \cup {Inode(a, n) : a \in 0 .. Start, n \in Names}]
    /\ \A n \in Names : dirEntries[n].present => pathExists /\ dirEntries[n].data = n
    /\ pc = "called"
    /\ todo = {}
    /\ fpath = 0
    /\ atCall = dirEntries
    /\ clockAt = [n \in Names |-> 0]
    /\ disturbed = FALSE
    /\ file = NoFile
    /\ entry = NoEntry
    /\ _exists = Each(Snaps, "None")
    /\ _digest = Each(Snaps, PyNone)
    /\ _results = Each(Snaps, PyNone)
    /\ writing = Each(Snaps, NoEntry)
    /\ last = Event("init", 0)
    /\ miss = Each(Snaps, FALSE)
    /\ lastDump = NoDump
    /\ options = [r \in Runs |-> PyNamespace(<<>>)]
    /\ filename = [r \in Runs |-> <<"a">>]
    /\ snapshot = [r \in Runs |-> NoSnapshot]

SpecPrune == PruneInit /\ [][PruneNext]_vars

-----------------------------------------------------------------------------
(* Properties *)

(* A findings value with every tuple in it written as a list. *)
RECURSIVE Listified(_)
Listified(x) ==
    IF x.t \in {"list", "tuple"}
    THEN PyList([i \in 1 .. Len(x.v) |-> Listified(x.v[i])])
    ELSE x

RECURSIVE HasTuple(_)
HasTuple(x) ==
    \/ x.t = "tuple"
    \/ x.t = "list" /\ \E i \in 1 .. Len(x.v) : HasTuple(x.v[i])

StoredDigest == GetItem(Loads(entry), PyStr(<<"digest">>))

(* C1: whenever exists() computes (does not replay) True, a record is at   *)
(* cache_path and its stored digest is the digest of the target file's     *)
(* bytes at that moment; and when the target file does not exist (the      *)
(* digest is None) exists() returns False whatever is at cache_path.       *)
C1_ComputedHitIsCurrent ==
    last.op = "exists" =>
        /\ last.computed /\ last.ret = "True" =>
                /\ entry.t = "jobj"
                /\ file # NoFile
                /\ StoredDigest = Md5Hex(file)
        /\ file = NoFile /\ _digest[last.s] = PyNone => last.ret = "False"

(* C2: a fresh Snapshot gets False from exists() with nothing at           *)
(* cache_path and dumps findings; the file is not modified and the entry   *)
(* stays as written; then exists() on a fresh Snapshot returns True and    *)
(* its results equal the findings.                                         *)
TwoRuns == last.op = "exists" /\ last.fresh /\ lastDump.valid /\ lastDump.clean

C3_Invalidation ==
    last.op = "exists" /\ last.fresh /\ lastDump.valid /\ file # lastDump.content
        => last.ret = "False"

SameInstance(s) == ~(last'.op = "create" /\ last'.s = s)

C9_Memoized ==
    [][\A s \in Snaps :
            /\ last.op = "exists" /\ last.s = s /\ last.ret # "raise"
            /\ SameInstance(s)
            => exists(s)'.ret = last.ret]_vars

RECURSIVE Same(_, _)
Same(x, y) ==
    /\ x.t = y.t
    /\ CASE x.t \in {"none", "str", "int"} -> x = y
         [] x.t \in {"list", "tuple"} ->
                /\ Len(x.v) = Len(y.v)
                /\ \A i \in 1 .. Len(x.v) : Same(x.v[i], y.v[i])
         [] x.t = "set" ->
                /\ Len(x.v) = Len(y.v)
                /\ \A i \in 1 .. Len(x.v) : \E j \in 1 .. Len(y.v) : Same(x.v[i], y.v[j])
         [] x.t \in {"dict", "namespace"} ->
                /\ Len(x.v) = Len(y.v)
                /\ \A i \in 1 .. Len(x.v) : \E j \in 1 .. Len(y.v) :
                        x.v[i][1] = y.v[j][1] /\ Same(x.v[i][2], y.v[j][2])

BothCreated == \A r \in Runs : snapshot[r] # NoSnapshot

(* C5: two configurations holding the same effective options, however      *)
(* their mappings, sets and namespaces were filled, and two references to  *)
(* the same file give the same serialize string and the same cache_path.   *)
C5_KeyDeterminism ==
    BothCreated /\ Same(options[1], options[2])
                /\ resolve(filename[1]) = resolve(filename[2])
        => /\ serialize(options[1]) = serialize(options[2])
           /\ snapshot[1].cache_path = snapshot[2].cache_path

C5_Witness ==
    /\ BothCreated
    /\ Same(options[1], options[2])
    /\ options[1] # options[2]
    /\ Len(options[1].v) = 2
    /\ options[1].v[1][1] # options[2].v[1][1]
    /\ options[1].v[1][2] \notin {options[2].v[1][2], options[2].v[2][2]}
    /\ filename[1] # filename[2]
    /\ snapshot[1].cache_path = snapshot[2].cache_path

(* C6: two configurations that differ in an option value, and the same     *)
(* file, give different serialize strings and different cache_path.        *)
C6_KeyDistinct ==
    BothCreated /\ ~Same(options[1], options[2])
                /\ resolve(filename[1]) = resolve(filename[2])
        => /\ serialize(options[1]) # serialize(options[2])
           /\ snapshot[1].cache_path # snapshot[2].cache_path


(* The age prepare_cache found for an entry: the clock it read when it     *)
(* compared the entry, minus the access time the entry had at the call.    *)
AgeFound(n) == clockAt[n] - atCall[n].atime

Swept == pc = "returned" /\ ~disturbed

(* C7: when prepare_cache returns from an existing directory that nothing  *)
(* else touched meanwhile, exactly the entries it found older than         *)
(* THRESHOLD are gone, and every entry of age THRESHOLD or less is there   *)
(* with its content and access time as before.                             *)
C7_Eviction ==
    Swept => \A n \in Names :
                IF atCall[n].present /\ AgeFound(n) > THRESHOLD
                THEN ~dirEntries[n].present
                ELSE dirEntries[n] = atCall[n]

C7_Witness ==
    /\ Swept
    /\ \E n \in Names : atCall[n].present /\ ~dirEntries[n].present
    /\ \E n \in Names : dirEntries[n].present /\ AgeFound(n) = THRESHOLD

(* C8: while a worker is inside dump on a cache_path, a reader of that     *)
(* cache_path (exists() or results of another Snapshot) finds the previous *)
(* record, no record, or the new record, never an empty or partly written  *)
(* file.                                                                   *)
C8_AtomicSave ==
    last.op \in {"exists", "results"} /\ last.read
        => entry.t \notin {"empty", "mixed"}

-----------------------------------------------------------------------------
(* Steps that leave the Snapshot s the instance it was and are no call of  *)
(* exists() on it.                                                         *)
Elsewhere(s) == ~(last'.op \in {"create", "exists"} /\ last'.s = s)

(* C11: after exists() returned True on a Snapshot, results is the         *)
(* findings that call loaded and cache_path is not read again, whatever    *)
(* happened to the entry since; after exists() returned False nothing is   *)
(* loaded, and results is the decoded record now at cache_path.            *)
C11_ResultRetrieval ==
    [][\A s \in Snaps :
            last.op = "exists" /\ last.s = s /\ Elsewhere(s) =>
                /\ last.ret = "True" =>
                        /\ _results[s] # PyNone
                        /\ ~results(s)'.read
                        /\ results(s)'.val = _results[s]
                /\ last.ret = "False" =>
                        /\ _results[s] = PyNone
                        /\ results(s)'.val =
                                (IF Loads(entry') = Raise THEN Raise
                                 ELSE GetItem(Loads(entry'), PyStr(<<"results">>)))]_vars

(* C12: whatever another process does to the target file while the call    *)
(* runs, exists() and the digest accessor do not end in an error about the *)
(* file; with the file gone they return False / None.                      *)
C12_MissingFileNeverRaises ==
    last.op \in {"digest", "exists"} => last.val # FileNotFoundError

(* What is at cache_path cannot be read as a record with a digest. *)
Unparseable ==
    /\ entry # NoEntry
    /\ Loads(entry) = Raise \/ ~HasKey(Loads(entry), PyStr(<<"digest">>))

Unset(s) == _exists[s] = "None" /\ _results[s] = PyNone

(* C13: with such a file at cache_path, exists() ends in an error, not in  *)
(* False, and leaves _exists and _results unset.                           *)
C13_CorruptionSurfaced ==
    last.op = "exists" /\ Unparseable
        => last.ret = "raise" /\ Unset(last.s)

(* C13, amended: ... an exists() that has no memoized answer to replay and *)
(* has a digest of the target file (the file exists, or the digest is      *)
(* already held) ends in an error and leaves _exists and _results unset.   *)
C13_CorruptionSurfacedComputed ==
    last.op = "exists" /\ Unparseable /\ last.computed /\ _digest[last.s] # PyNone
        => last.ret = "raise" /\ Unset(last.s)

C13_Witness ==
    /\ last.op = "exists" /\ last.computed /\ last.ret = "raise"
    /\ entry = JObj(<<>>)
    /\ _digest[last.s] # PyNone /\ Unset(last.s)

(* prepare_cache ended in an exception: in the loop (the entry it was at   *)
(* is still in todo), or at mkdir (nothing was listed).                    *)
RaisedInSweep == pc = "raised" /\ todo # {}
RaisedAtMkdir == pc = "raised" /\ todo = {}

(* C14: an entry removed by another process while prepare_cache sweeps the *)
(* directory does not make it raise; it goes on with the other entries.    *)
C14_SweepToleratesRemoval == ~RaisedInSweep

(* C15: prepare_cache does not end in an error over the directory being    *)
(* missing or being there, also when another process makes it at the same  *)
(* time, and on return the directory exists.                               *)
C15_DirectoryReady ==
    /\ ~RaisedAtMkdir
    /\ pc = "returned" => pathExists

(* The digest of the target file as it is now: what a record written now   *)
(* has to carry.                                                           *)
CurrentDigest == IF file = NoFile THEN PyNone ELSE Md5Hex(file)

(* C16: the digest in the record dump writes is the digest of the bytes    *)
(* the target file has when dump writes it.                                *)
C16_StoredDigestIsCurrent ==
    last.op = "dump" => StoredDigest = CurrentDigest

(* A call on s that asks for the digest: exists(), dump, the accessor. *)
Asks(s) == last'.s = s /\ last'.op \in {"exists", "dump", "digest"}

C17_NoContention ==
    BothCreated /\ snapshot[1].file_path # snapshot[2].file_path
        => snapshot[1].cache_path # snapshot[2].cache_path

C17_Witness ==
    /\ BothCreated
    /\ snapshot[1].file_path # snapshot[2].file_path
    /\ Len(options[1].v) = 2
    /\ serialize(options[1]) = serialize(options[2])
    /\ snapshot[1].cache_path # snapshot[2].cache_path

(* No write_text is under way. *)
AllWritten == \A w \in Workers : writing[w] = NoEntry

(* C18: once the workers that dump to one cache_path have all finished,    *)
(* the file holds the complete record of the worker whose write finished   *)
(* last (val of the close event: the text it wrote), never a mixture.      *)
C18_LastWriterWins ==
    last.op = "close" /\ AllWritten => entry = last.val

(* The calls that only read: create, exists(), the digest and results      *)
(* accessors.                                                              *)
ReadOnlyCall == last'.op \in {"create", "exists", "digest", "results"}

(* C20: create, exists(), digest and results leave the target file and     *)
(* what is at cache_path as they are; dump changes nothing but what is at  *)
(* its cache_path.                                                         *)
C20_ReadsChangeNothing ==
    [][/\ ReadOnlyCall => file' = file /\ entry' = entry
       /\ last'.op = "dump" => file' = file]_vars

(* A record found out of date by exists() and still there. *)
C20_Witness ==
    /\ last.op = "exists" /\ last.read /\ last.ret = "False"
    /\ entry.t = "jobj" /\ file # NoFile

====
